---------------------------- MODULE Spec2Model ----------------------------
(***************************************************************************)
(* A model of password_policy/stats.py: the PasswordStats object, its      *)
(* memoised accessors (cached_property), the category counters, the       *)
(* entropy estimate, the repeated-pattern detector (a regular expression)  *)
(* and the sequence detector (a scan with an explicit cursor).             *)
(*                                                                         *)
(* A string is a sequence of one-character strings.  A Python value is     *)
(* modelled by the TLA+ value of the same shape: a set, an integer, a      *)
(* Counter as a function from its keys to their counts.                    *)
(***************************************************************************)
EXTENDS Integers, Sequences, FiniteSets, TLC

VARIABLES
    password,          \* self.password
    cache,             \* the instance attributes set by cached_property
    ret,               \* what the last accessor call gave its caller
    pc,                \* "idle", or "scan" inside sequences_length's loop
    i,                 \* sequences_length: the cursor
    sequences_length,  \* sequences_length: the running total
    common_length,     \* sequences_length: the last iteration's common_length
    calls              \* the number of accessor calls made on the instance

vars == <<password, cache, ret, pc, i, sequences_length, common_length, calls>>

-----------------------------------------------------------------------------
(* Bounds of the model.                                                    *)

\* Longest password of the statistics specification (Spec).
MaxLen == 2
\* Most accessor calls made on one instance.
MaxCalls == 2
\* Longest password over RepChars of the detector specification.
MaxRepLen == 4
\* Longest password over UnitChars of the detector specification.
MaxUnitLen == 6
\* Longest contiguous piece of _sequences taken as a password.
MaxRun == 6

-----------------------------------------------------------------------------
(* Helpers on sequences and sets.                                          *)

Range(s) == {s[k] : k \in DOMAIN s}

Reverse(s) == [k \in 1..Len(s) |-> s[Len(s) + 1 - k]]

Max(S) == CHOOSE m \in S : \A n \in S : n <= m

RECURSIVE SumOver(_, _)
SumOver(f, S) ==
    IF S = {} THEN 0
    ELSE LET k == CHOOSE k \in S : TRUE IN f[k] + SumOver(f, S \ {k})

\* All sequences over S of length at most n.
SeqsUpTo(S, n) == UNION {[1..m -> S] : m \in 0..n}

-----------------------------------------------------------------------------
(* Characters.                                                             *)

LowerLetters ==
    <<"a","b","c","d","e","f","g","h","i","j","k","l","m",
      "n","o","p","q","r","s","t","u","v","w","x","y","z">>

UpperLetters ==
    <<"A","B","C","D","E","F","G","H","I","J","K","L","M",
      "N","O","P","Q","R","S","T","U","V","W","X","Y","Z">>

Digits == {"0","1","2","3","4","5","6","7","8","9"}

\* unicode.lower() / sre's lower() on one character
Lower(c) ==
    IF \E k \in 1..26 : UpperLetters[k] = c
    THEN LowerLetters[CHOOSE k \in 1..26 : UpperLetters[k] = c]
    ELSE c

\* unicode.upper() on one character
Upper(c) ==
    IF \E k \in 1..26 : LowerLetters[k] = c
    THEN UpperLetters[CHOOSE k \in 1..26 : LowerLetters[k] = c]
    ELSE c

LowerStr(s) == [k \in 1..Len(s) |-> Lower(s[k])]
UpperStr(s) == [k \in 1..Len(s) |-> Upper(s[k])]

\* unicodedata.category(c): the two-letter general category, as the pair
\* of its letters, for the characters the model uses.
category(c) ==
    CASE c \in Range(LowerLetters) -> <<"L", "l">>
      [] c \in Range(UpperLetters) -> <<"L", "u">>
      [] c \in Digits -> <<"N", "d">>
      [] c \in {"~", "+", "="} -> <<"S", "m">>
      [] c = "$" -> <<"S", "c">>
      [] c = "^" -> <<"S", "k">>
      [] c \in {"!", "@", "#", "%", "&", "*"} -> <<"P", "o">>
      [] c = "(" -> <<"P", "s">>
      [] c = ")" -> <<"P", "e">>
      [] c = "_" -> <<"P", "c">>
      [] c = "-" -> <<"P", "d">>
      [] c = " " -> <<"Z", "s">>
      [] OTHER -> <<"C", "n">>

\* The top-level categories of char_categories' docstring.
TopCategories == {"L", "M", "N", "P", "S", "Z", "C"}

\* collections.Counter(seq): each element of seq to its number of occurrences
Counter(s) == [x \in Range(s) |-> Cardinality({k \in DOMAIN s : s[k] = x})]

\* Counter.__getitem__: a missing key counts 0 and is not inserted
CounterGet(cnt, key) == IF key \in DOMAIN cnt THEN cnt[key] ELSE 0

-----------------------------------------------------------------------------
(* Calls.  An accessor run on the instance whose attributes are c gives    *)
(* [c, outcome, value]: the attributes after the call, "return" or         *)
(* "raise", and the value returned or the exception raised.                *)

Return(c, v) == [c |-> c, outcome |-> "return", value |-> v]
Raise(c, e) == [c |-> c, outcome |-> "raise", value |-> e]

\* setattr(self, name, v)
SetAttr(c, name, v) == [n \in DOMAIN c \cup {name} |-> IF n = name THEN v ELSE c[n]]

\* cached_property, mutated: letters_uppercase and letters_lowercase are
\* stored under the attribute of letters
AttrNameLettersShared(f) ==
    IF f \in {"letters_uppercase", "letters_lowercase"}
    THEN "__letters"
    ELSE "__" \o f

\* cached_property: name = '__' + f.__name__
AttrName(f) == "__" \o f

\* cached_property's wrapper, for the method named f whose body, run on c,
\* gives `computed`: the body runs only when the attribute is not set yet,
\* and an exception of the body leaves the attribute unset.
cached_property(c, f, computed) ==
    IF AttrName(f) \in DOMAIN c
    THEN Return(c, c[AttrName(f)])
    ELSE IF computed.outcome = "raise"
         THEN computed
         ELSE Return(SetAttr(computed.c, AttrName(f), computed.value), computed.value)

-----------------------------------------------------------------------------
(* Statistics.                                                             *)

alphabet(c) == cached_property(c, "alphabet", Return(c, Range(password)))

alphabet_cardinality(c) ==
    cached_property(c, "alphabet_cardinality",
        LET a == alphabet(c) IN Return(a.c, Cardinality(a.value)))

char_categories_detailed(c) ==
    cached_property(c, "char_categories_detailed",
        Return(c, Counter([k \in 1..Len(password) |-> category(password[k])])))

\* char_categories' loop, mutated: c[cat[0]] = n instead of c[cat[0]] += n
TopCounterOverwrite(d) ==
    [t \in {cat[1] : cat \in DOMAIN d} |->
        d[CHOOSE cat \in DOMAIN d : cat[1] = t]]

\* char_categories' loop: c = Counter(); c[cat[0]] += n for each item
TopCounter(d) ==
    [t \in {cat[1] : cat \in DOMAIN d} |->
        SumOver(d, {cat \in DOMAIN d : cat[1] = t})]

char_categories(c) ==
    cached_property(c, "char_categories",
        LET d == char_categories_detailed(c) IN Return(d.c, TopCounter(d.value)))

-----------------------------------------------------------------------------
(* Counters.                                                               *)

length(c) == cached_property(c, "length", Return(c, Len(password)))

letters(c) ==
    cached_property(c, "letters",
        LET t == char_categories(c) IN Return(t.c, CounterGet(t.value, "L")))

letters_uppercase(c) ==
    cached_property(c, "letters_uppercase",
        LET d == char_categories_detailed(c)
        IN Return(d.c, CounterGet(d.value, <<"L", "u">>)))

letters_lowercase(c) ==
    cached_property(c, "letters_lowercase",
        LET d == char_categories_detailed(c)
        IN Return(d.c, CounterGet(d.value, <<"L", "l">>)))

numbers(c) ==
    cached_property(c, "numbers",
        LET t == char_categories(c) IN Return(t.c, CounterGet(t.value, "N")))

\* sum(map(lambda (cat, n): int(cat in categories)*n, items))
CountIn(top, categories) ==
    SumOver(top, {cat \in DOMAIN top : cat \in categories})

\* sum(map(lambda (cat, n): int(cat not in categories)*n, items))
CountNotIn(top, categories) ==
    SumOver(top, {cat \in DOMAIN top : cat \notin categories})

count(c, categories) ==
    LET t == char_categories(c) IN Return(t.c, CountIn(t.value, categories))

count_except(c, categories) ==
    LET t == char_categories(c) IN Return(t.c, CountNotIn(t.value, categories))

special_characters(c) ==
    cached_property(c, "special_characters", count_except(c, {"L", "N"}))

-----------------------------------------------------------------------------
(* Security.                                                               *)

\* Python's x ** y on non-negative integers (0 ** 0 is 1)
Pow(x, y) == IF y = 0 THEN 1 ELSE x ^ y

combinations(c) ==
    cached_property(c, "combinations",
        LET a == alphabet_cardinality(c)
            l == length(a.c)
        IN Return(l.c, Pow(a.value, l.value)))

\* math.log(n, 2) in thousandths, rounded down, for n = 1..8
Log2Milli == <<0, 1000, 1584, 2000, 2321, 2584, 2807, 3000>>

\* math.log(x, 2): a ValueError (math domain error) unless x > 0
math_log2(c, x) ==
    IF x <= 0 THEN Raise(c, "ValueError") ELSE Return(c, Log2Milli[x])

\* self.length * log(self.alphabet_cardinality, 2), in thousandths of a bit
entropy_bits(c) ==
    cached_property(c, "entropy_bits",
        LET l == length(c)
            a == alphabet_cardinality(l.c)
            lg == math_log2(a.c, a.value)
        IN IF lg.outcome = "raise" THEN lg
           ELSE Return(lg.c, l.value * lg.value))

\* strength has a docstring and no body: it returns None
strength(c) == Return(c, "None")

-----------------------------------------------------------------------------
(* Detectors: repeated patterns.                                           *)
(* _repeated_patterns_rex = ((.+?)\2+) with UNICODE | DOTALL | IGNORECASE. *)
(* Positions are 1-based here.                                             *)

\* the comparison of a back-reference, mutated: without IGNORECASE
CharEqExact(a, b) == a = b

\* the comparison of a back-reference under IGNORECASE
CharEq(a, b) == Lower(a) = Lower(b)

\* \2 matches at q: the k characters at p occur again at q
CopyAt(s, p, k, q) ==
    /\ q + k - 1 <= Len(s)
    /\ \A d \in 0..(k - 1) : CharEq(s[p + d], s[q + d])

\* \2+, mutated to \2: one copy only
RepeatsOnce(s, p, k, q) == IF CopyAt(s, p, k, q) THEN 1 ELSE 0

\* \2+ is greedy: the number of consecutive copies of the unit from q on
RECURSIVE Repeats(_, _, _, _)
Repeats(s, p, k, q) ==
    IF CopyAt(s, p, k, q) THEN 1 + Repeats(s, p, k, q + k) ELSE 0

\* (.+?) is lazy: the shortest unit at p that is followed by a copy of
\* itself, 0 when there is none (no match starts at p)
UnitLen(s, p) ==
    LET K == {k \in 1..Len(s) : CopyAt(s, p, k, p + k)}
    IN IF K = {} THEN 0 ELSE CHOOSE k \in K : \A n \in K : k <= n

\* the length of the match that starts at p, 0 when none does
MatchLen(s, p) ==
    LET k == UnitLen(s, p)
    IN IF k = 0 THEN 0 ELSE k * (1 + Repeats(s, p, k, p + k))

\* findall from p on: the lengths of the non-overlapping matches, leftmost
\* first; the search resumes at the end of a match
RECURSIVE FindAll(_, _)
FindAll(s, p) ==
    IF p > Len(s) THEN << >>
    ELSE LET n == MatchLen(s, p)
         IN IF n = 0 THEN FindAll(s, p + 1)
            ELSE <<n>> \o FindAll(s, p + n)

RECURSIVE SumSeq(_)
SumSeq(s) == IF s = << >> THEN 0 ELSE Head(s) + SumSeq(Tail(s))

\* length += len(substring) for each match
RepeatedPatternsLength(s) == SumSeq(FindAll(s, 1))

repeated_patterns_length(c) ==
    cached_property(c, "repeated_patterns_length",
        Return(c, RepeatedPatternsLength(password)))

-----------------------------------------------------------------------------
(* Detectors: sequences.  The cursors i and j count from 0 as in the code; *)
(* the character at cursor n of a string s is s[n + 1].                    *)

Alphabet == LowerLetters

Keyboard ==
    <<"q","w","e","r","t","y","u","i","o","p","a","s","d",
      "f","g","h","j","k","l","z","x","c","v","b","n","m">>

KeyboardSpecial ==
    <<"~","!","@","#","$","%","^","&","*","(",")","_","+","-","=">>

Numbers == <<"0","1","2","3","4","5","6","7","8","9","0">>

SequencesForward == Alphabet \o Keyboard \o KeyboardSpecial \o Numbers

\* _sequences, mutated: the four sequences and the reversed copy are kept
\* apart, with a separator between them
SequencesSeparated ==
    LET sep == <<"|">>
        fwd == Alphabet \o sep \o Keyboard \o sep \o KeyboardSpecial
                   \o sep \o Numbers
    IN fwd \o sep \o Reverse(fwd)

\* _sequences = _sequences + _sequences[::-1]
_sequences == SequencesForward \o Reverse(SequencesForward)

\* str.find(ch, start): the lowest cursor >= start holding ch, or -1
Find(t, ch, start) ==
    LET J == {j \in start..(Len(t) - 1) : t[j + 1] = ch}
    IN IF J = {} THEN -1 ELSE CHOOSE j \in J : \A n \in J : j <= n

\* len(common_here): izip stops at the end of the shorter string, the loop
\* breaks at the first difference
RECURSIVE CommonHere(_, _, _)
CommonHere(pw, ii, j) ==
    IF ii < Len(pw) /\ j < Len(_sequences) /\ pw[ii + 1] = _sequences[j + 1]
    THEN 1 + CommonHere(pw, ii + 1, j + 1)
    ELSE 0

\* the inner loop from j on, with common_length so far
RECURSIVE InnerLoop(_, _, _, _)
InnerLoop(pw, ii, j, cl) ==
    LET n == Find(_sequences, pw[ii + 1], j + 1)
    IN IF n = -1 THEN cl
       ELSE InnerLoop(pw, ii, n, Max({cl, CommonHere(pw, ii, n)}))

\* the inner loop, mutated: it stops after the first occurrence
CommonLengthFirstOnly(pw, ii) ==
    LET n == Find(_sequences, pw[ii + 1], 0)
    IN IF n = -1 THEN 1 ELSE Max({1, CommonHere(pw, ii, n)})

\* common_length of the iteration at cursor ii: j = -1, common_length = 1
CommonLength(pw, ii) == InnerLoop(pw, ii, -1, 1)

\* i += common_length, mutated: i += 1
AdvanceByOne(ii, cl) == ii + 1

\* i += common_length
Advance(ii, cl) == ii + cl

\* the whole loop from cursor ii on with the total so far
RECURSIVE ScanFrom(_, _, _)
ScanFrom(pw, ii, total) ==
    IF ii < Len(pw)
    THEN LET cl == CommonLength(pw, ii)
         IN ScanFrom(pw, Advance(ii, cl), IF cl > 1 THEN total + cl ELSE total)
    ELSE total

\* sequences_length of a password, in one evaluation
SequencesLength(pw) == ScanFrom(pw, 0, 0)

\* sequences_length through cached_property, in one evaluation
sequences_length_property(c) ==
    cached_property(c, "sequences_length",
        Return(c, SequencesLength(password)))

\* the accessor named m, called with the arguments a on the instance
\* whose attributes are c
Accessor(m, a, c) ==
    CASE m = "alphabet" -> alphabet(c)
      [] m = "alphabet_cardinality" -> alphabet_cardinality(c)
      [] m = "char_categories_detailed" -> char_categories_detailed(c)
      [] m = "char_categories" -> char_categories(c)
      [] m = "length" -> length(c)
      [] m = "letters" -> letters(c)
      [] m = "letters_uppercase" -> letters_uppercase(c)
      [] m = "letters_lowercase" -> letters_lowercase(c)
      [] m = "numbers" -> numbers(c)
      [] m = "special_characters" -> special_characters(c)
      [] m = "combinations" -> combinations(c)
      [] m = "entropy_bits" -> entropy_bits(c)
      [] m = "repeated_patterns_length" -> repeated_patterns_length(c)
      [] m = "sequences_length" -> sequences_length_property(c)
      [] m = "count" -> count(c, a)
      [] m = "count_except" -> count_except(c, a)
      [] m = "strength" -> strength(c)

\* the methods wrapped in cached_property
CachedProperties ==
    {"alphabet", "alphabet_cardinality", "char_categories_detailed",
     "char_categories", "length", "letters", "letters_uppercase",
     "letters_lowercase", "numbers", "special_characters", "combinations",
     "entropy_bits", "repeated_patterns_length", "sequences_length"}

-----------------------------------------------------------------------------
(* The passwords of the model.                                             *)

\* Characters of the statistics specification: a lowercase letter, an
\* uppercase letter and a digit.
StatChars == {"a", "A", "1"}

\* Characters of the detector specification: two letters in both cases
\* (the uppercase ones occur nowhere in _sequences).
RepChars == {"a", "b", "A", "B"}

UnitChars == {"a", "b"}

\* The contiguous pieces of _sequences of 2 to MaxRun characters.
Runs ==
    {SubSeq(_sequences, jn[1], jn[1] + jn[2] - 1) :
        jn \in {x \in (1..Len(_sequences)) \X (2..MaxRun) :
                    x[1] + x[2] - 1 <= Len(_sequences)}}

\* The arguments given to count and count_except: every set of the
\* top-level categories of StatChars' characters (L, N) and of one
\* category no password of StatPasswords has a character of (S).
CategoryArgs == SUBSET {"L", "N", "S"}

StatPasswords == SeqsUpTo(StatChars, MaxLen)

\* The passwords the documentation gives as examples.
Examples ==
    { <<"a","a","a","a">>, <<"a","b","c","a","b","c">>, <<"a","b","c","d">>,
      <<"a","b","c","d","e","f">>, <<"q","w","e","r","t","y">>,
      <<"z","y","x","w","v","u">>, <<"A","B","C","D","E","F">>,
      <<"a","1","b","2">> }

\* The two-character passwords across the junctions of _sequences: the end
\* of one sequence and the start of the next, and the end of the forward
\* half and the start of the reversed half.
Junctions ==
    { <<"z","q">>, <<"m","~">>, <<"=","0">>, <<"0","0">> }

DetectorPasswords ==
    SeqsUpTo(RepChars, MaxRepLen) \cup SeqsUpTo(UnitChars, MaxUnitLen)
        \cup Runs \cup {UpperStr(r) : r \in Runs}
        \cup Examples \cup Junctions

-----------------------------------------------------------------------------
(* The state machine: one PasswordStats instance and the calls made on it. *)

NoCall == [method |-> "none", args |-> {}, outcome |-> "none", value |-> "none"]

\* an instance with no cached attribute
NoAttrs == [n \in {} |-> 0]

\* __init__: self.password = unicode(password)
InitWith(P) ==
    /\ password \in P
    /\ cache = NoAttrs
    /\ ret = NoCall
    /\ pc = "idle"
    /\ i = 0
    /\ sequences_length = 0
    /\ common_length = 0
    /\ calls = 0

Init == InitWith(StatPasswords)

DetectorInit == InitWith(DetectorPasswords)

\* a call of method m with arguments a that runs to its end in one step
\* and gives r
CallWith(m, a, r) ==
    /\ pc = "idle"
    /\ calls < MaxCalls
    /\ calls' = calls + 1
    /\ cache' = r.c
    /\ ret' = [method |-> m, args |-> a, outcome |-> r.outcome, value |-> r.value]
    /\ UNCHANGED <<password, pc, i, sequences_length, common_length>>

Call(m, r) == CallWith(m, {}, r)

GetAlphabet == Call("alphabet", alphabet(cache))
GetAlphabetCardinality == Call("alphabet_cardinality", alphabet_cardinality(cache))
GetCharCategoriesDetailed ==
    Call("char_categories_detailed", char_categories_detailed(cache))
GetCharCategories == Call("char_categories", char_categories(cache))
GetLength == Call("length", length(cache))
GetLetters == Call("letters", letters(cache))
GetLettersUppercase == Call("letters_uppercase", letters_uppercase(cache))
GetLettersLowercase == Call("letters_lowercase", letters_lowercase(cache))
GetNumbers == Call("numbers", numbers(cache))
GetSpecialCharacters == Call("special_characters", special_characters(cache))
GetCombinations == Call("combinations", combinations(cache))
GetEntropyBits == Call("entropy_bits", entropy_bits(cache))
GetRepeatedPatternsLength ==
    Call("repeated_patterns_length", repeated_patterns_length(cache))

CallCount ==
    \E categories \in CategoryArgs :
        CallWith("count", categories, count(cache, categories))

CallCountExcept ==
    \E categories \in CategoryArgs :
        CallWith("count_except", categories, count_except(cache, categories))

CallStrength == Call("strength", strength(cache))

\* sequences_length through cached_property: the cached value, or the
\* body's first lines (sequences_length = 0, i = 0)
GetSequencesLength ==
    /\ pc = "idle"
    /\ calls < MaxCalls
    /\ calls' = calls + 1
    /\ IF AttrName("sequences_length") \in DOMAIN cache
       THEN /\ ret' = [method |-> "sequences_length", args |-> {},
                       outcome |-> "return",
                       value |-> cache[AttrName("sequences_length")]]
            /\ UNCHANGED <<password, cache, pc, i, sequences_length, common_length>>
       ELSE /\ pc' = "scan"
            /\ i' = 0
            /\ sequences_length' = 0
            /\ common_length' = 0
            /\ UNCHANGED <<password, cache, ret>>

\* one iteration of `while i < len(self.password)`
ScanStep ==
    /\ pc = "scan"
    /\ i < Len(password)
    /\ LET cl == CommonLength(password, i)
       IN /\ common_length' = cl
          /\ sequences_length' =
                IF cl > 1 THEN sequences_length + cl ELSE sequences_length
          /\ i' = Advance(i, cl)
    /\ UNCHANGED <<password, cache, ret, pc, calls>>

\* the loop ends: return sequences_length, which cached_property stores
ScanReturn ==
    /\ pc = "scan"
    /\ ~(i < Len(password))
    /\ cache' = SetAttr(cache, AttrName("sequences_length"), sequences_length)
    /\ ret' = [method |-> "sequences_length", args |-> {}, outcome |-> "return",
               value |-> sequences_length]
    /\ pc' = "idle"
    /\ i' = 0
    /\ sequences_length' = 0
    /\ common_length' = 0
    /\ UNCHANGED <<password, calls>>

DetectorNext ==
    \/ GetRepeatedPatternsLength
    \/ GetSequencesLength
    \/ ScanStep
    \/ ScanReturn

Next ==
    \/ GetAlphabet
    \/ GetAlphabetCardinality
    \/ GetCharCategoriesDetailed
    \/ GetCharCategories
    \/ GetLength
    \/ GetLetters
    \/ GetLettersUppercase
    \/ GetLettersLowercase
    \/ GetNumbers
    \/ GetSpecialCharacters
    \/ GetCombinations
    \/ GetEntropyBits
    \/ CallCount
    \/ CallCountExcept
    \/ CallStrength
    \/ DetectorNext

\* every accessor of one instance, on the passwords of StatPasswords
Spec == Init /\ [][Next]_vars

\* the two detectors of one instance, on the passwords of DetectorPasswords
DetectorSpec == DetectorInit /\ [][DetectorNext]_vars

-----------------------------------------------------------------------------
(* Properties.                                                             *)

Returned(m) == pc = "idle" /\ ret.method = m /\ ret.outcome = "return"

\* C1: a password that is a contiguous piece of _sequences, two characters
\* or longer, has sequences_length equal to its length.
C1_RunCountedWhole ==
    (ret.method = "sequences_length" /\ password \in Runs)
        => (ret.outcome = "return" /\ ret.value = Len(password))

C1_Witness ==
    /\ Returned("sequences_length")
    /\ password = <<"z","y","x","w","v","u">>
    /\ ret.value = 6

\* C2: sequences_length gives a password what it gives the password in
\* lowercase.
C2_SequencesIgnoreCase ==
    ret.method = "sequences_length"
        => ret.value = SequencesLength(LowerStr(password))

\* s is a unit of m characters repeated two or more times
IsRepetitionOf(s, m) ==
    /\ m >= 1
    /\ 2 * m <= Len(s)
    /\ Len(s) % m = 0
    /\ \A k \in 1..Len(s) : s[k] = s[((k - 1) % m) + 1]

\* the k characters at the start of s are followed by a copy of themselves,
\* letter case ignored
PrefixRepeated(s, k) ==
    /\ 2 * k <= Len(s)
    /\ \A d \in 1..k : Lower(s[d]) = Lower(s[k + d])

\* C3 as stated: a password that is a unit repeated two or more times has
\* repeated_patterns_length equal to its length.
C3_Original ==
    (ret.method = "repeated_patterns_length"
        /\ \E m \in 1..Len(password) : IsRepetitionOf(password, m))
        => ret.value = Len(password)

\* C3, amended: a password that is a unit repeated two or more times, no
\* shorter prefix of which is followed by a copy of itself (letter case
\* ignored), has repeated_patterns_length equal to its length.
C3_ShortestUnitCountedWhole ==
    \A m \in 1..Len(password) :
        (/\ ret.method = "repeated_patterns_length"
         /\ IsRepetitionOf(password, m)
         /\ \A k \in 1..(m - 1) : ~PrefixRepeated(password, k))
            => (ret.outcome = "return" /\ ret.value = Len(password))

C3_Witness ==
    /\ Returned("repeated_patterns_length")
    /\ password = <<"a","b","c","a","b","c">>
    /\ ret.value = 6

\* C4: repeated_patterns_length gives a password of letters what it gives
\* the password in lowercase.
C4_RepeatedIgnoreCase ==
    (ret.method = "repeated_patterns_length"
        /\ Range(password) \subseteq Range(LowerLetters) \cup Range(UpperLetters))
        => ret.value = RepeatedPatternsLength(LowerStr(password))

C4_Witness ==
    /\ Returned("repeated_patterns_length")
    /\ password = <<"a","b","A","B">>
    /\ ret.value = 4

\* C5: entropy_bits returns 0.0 for every password of at most one distinct
\* character, the empty password included.
C5_EntropyZeroWhenAlphabetAtMostOne ==
    (ret.method = "entropy_bits" /\ Cardinality(Range(password)) <= 1)
        => (ret.outcome = "return" /\ ret.value = 0)

\* C6: a call of strength raises; it never returns a value.
C6_StrengthRaises ==
    ret.method = "strength" => ret.outcome = "raise"

\* what the last call's method gives as the first call on a new instance
FirstCall(m, a) == Accessor(m, a, NoAttrs)

C7_ValuesAsFirstCall ==
    /\ ret.method # "none" =>
          /\ ret.outcome = FirstCall(ret.method, ret.args).outcome
          /\ ret.value = FirstCall(ret.method, ret.args).value
    /\ \A m \in CachedProperties :
          AttrName(m) \in DOMAIN cache =>
              cache[AttrName(m)] = FirstCall(m, {}).value

\* C7: whatever calls were made before, every call returns (or raises)
\* what the same call gives as the first call on a new instance of the same
\* password, every cached attribute holds that value, and no call changes
\* the password.
C7_MemoizationIdempotent ==
    [](C7_ValuesAsFirstCall) /\ [][password' = password]_vars

C7_Witness ==
    /\ Returned("letters_uppercase")
    /\ calls = 2
    /\ password = <<"a", "A">>
    /\ DOMAIN cache = {AttrName("char_categories_detailed"),
                       AttrName("char_categories"), AttrName("letters"),
                       AttrName("letters_uppercase")}
    /\ ret.value = 1

\* C8: count(C) + count_except(C) is the password's length for every set C
\* of category letters, and the top-level counts sum to the length.
C8_CountPlusCountExceptIsLength ==
    /\ ret.method = "count" =>
          ret.value + count_except(cache, ret.args).value = Len(password)
    /\ ret.method = "count_except" =>
          ret.value + count(cache, ret.args).value = Len(password)
    /\ ret.method = "char_categories" =>
          /\ SumOver(ret.value, DOMAIN ret.value) = Len(password)
          /\ count(cache, {}).value = 0
          /\ count_except(cache, {}).value = Len(password)

C8_Witness ==
    /\ Returned("count")
    /\ password = <<"a", "1">>
    /\ ret.args = {"L", "S"}
    /\ ret.value = 1

C9_ScanInv ==
    /\ pc = "scan" =>
          /\ sequences_length <= i
          /\ i <= Len(password)
          /\ sequences_length = 0 \/ sequences_length >= 2
    /\ ret.method = "sequences_length" =>
          ret.value = 0 \/ (2 <= ret.value /\ ret.value <= Len(password))

C9_ScanStep ==
    /\ (pc = "scan" /\ pc' = "scan") =>
          /\ common_length' >= 1
          /\ common_length' <= Len(password) - i
          /\ i' = i + common_length'
          /\ i' > i
          /\ sequences_length' =
                IF common_length' > 1 THEN sequences_length + common_length'
                ELSE sequences_length
          /\ password[i + 1] \notin Range(_sequences) =>
                (common_length' = 1 /\ sequences_length' = sequences_length)
    /\ (pc = "scan" /\ pc' = "idle") =>
          (i = Len(password) /\ ret'.value = sequences_length)

\* C9: each iteration of the scan advances the cursor by common_length,
\* which is at least 1 and at most what is left of the password; the total
\* never exceeds the cursor nor the cursor the length; the scan ends (each
\* iteration moves the cursor forward, and never past the length), with
\* the cursor at the length and a result of 0 or of 2 to the length; a
\* character that _sequences lacks adds nothing and advances the cursor
\* by 1.
C9_SkipAheadScan ==
    [](C9_ScanInv) /\ [][C9_ScanStep]_vars

C9_Witness ==
    /\ pc = "scan"
    /\ password = <<"a","b","A","b">>
    /\ i = 3
    /\ common_length = 1
    /\ sequences_length = 2

\* C10: each two-character password that spans a junction of _sequences
\* has sequences_length 2.
C10_JunctionRunsCounted ==
    (ret.method = "sequences_length" /\ password \in Junctions)
        => (ret.outcome = "return" /\ ret.value = 2)

C10_Witness ==
    /\ Returned("sequences_length")
    /\ password = <<"0","0">>
    /\ ret.value = 2

=============================================================================
